---- MODULE Spec2Model ----
(***************************************************************************)
(* Model of RUMBA/rumba.py: the house (Casa) that scatters dirt spots on   *)
(* a grid, the cleaning robot (Rumba) that random-walks over the grid, and *)
(* the main simulation loop.  Python lists are objects on a heap and the   *)
(* attributes hold references to them, so that two attributes naming the   *)
(* same list see each other's mutations exactly as in the program.         *)
(***************************************************************************)
EXTENDS Integers, Sequences, FiniteSets, TLC

\* ------------------------------------------------------------------ bounds
MaxDim == 2        \* largest number of rows / columns explored
MaxDirt == 2       \* largest num_dirt_spots explored
MaxSteps == 3      \* largest max_steps explored
MaxCalls == 3      \* most move() calls made by a free client of the API
MaxGrid == 5       \* largest square grid explored with a seeded random source
MaxScript == 4     \* number of directions a seeded random source holds

VARIABLES
    grid_size,      \* <<rows, cols>>                      (rumba.py:170)
    num_dirt_spots, \* requested number of dirt spots      (rumba.py:171)
    max_steps,      \* step budget                         (rumba.py:180)
    heap,           \* the list objects; a reference is an index into heap
    casa,           \* the Casa object: [grid_size, dirt_positions]
    rumba,          \* the Rumba object: [grid_size, dirt_positions, position, cleaned_spots]
    state,          \* the dict last returned by get_state()
    steps,          \* loop counter                        (rumba.py:179)
    report,         \* what the program printed            (rumba.py:188-191)
    pc,             \* position of the program
    dirt0,          \* history: the dirt list the Rumba was constructed with
    moves,          \* history: number of move() calls made
    plots,          \* history: number of plot_grid() calls made
    seed            \* the outcomes a seeded random source will produce

vars == <<seed, grid_size, num_dirt_spots, max_steps, heap, casa, rumba, state,
          steps, report, pc, dirt0, moves, plots>>

\* ----------------------------------------------------------- python values
\* A reference that names no list; NoPos is an attribute not yet assigned.
NoRef == 0
NoPos == <<>>

NoCasa == [grid_size |-> <<>>, dirt_positions |-> NoRef]
NoRumba == [grid_size |-> <<>>, dirt_positions |-> NoRef,
            position |-> NoPos, cleaned_spots |-> NoRef]
NoState == [position |-> NoPos, dirt_positions |-> NoRef, cleaned_spots |-> NoRef]

\* The random source is not seeded: every outcome is possible.
NoSeed == [spots |-> <<>>, start |-> NoPos, dirs |-> <<>>]

\* random.randint(a, b): the set of values it can return; empty means it
\* raises ValueError (empty range).
randint(a, b) == a..b

\* x in list
In(x, list) == \E i \in 1..Len(list) : list[i] = x

\* A remove that compares the row only.
ListRemoveRow(list, x) == SelectSeq(list, LAMBDA y : y[1] # x[1])

\* list.remove(x): delete the first occurrence of x
RECURSIVE ListRemove(_, _)
ListRemove(list, x) ==
    IF list = <<>> THEN <<>>
    ELSE IF Head(list) = x THEN Tail(list)
    ELSE <<Head(list)>> \o ListRemove(Tail(list), x)

max(a, b) == IF a >= b THEN a ELSE b
min(a, b) == IF a <= b THEN a ELSE b

\* ------------------------------------------------------------------- Casa
\* The spots one draw of the loop body can produce.
Spots(gs) == randint(0, gs[1] - 1) \X randint(0, gs[2] - 1)

\* The loop without the test for duplicates.
GenLoopNoCheck(dirt_spots, draws) == dirt_spots \o draws

\* A loop whose test for duplicates compares the row only.
RECURSIVE GenLoopRowCheck(_, _)
GenLoopRowCheck(dirt_spots, draws) ==
    IF draws = <<>> THEN dirt_spots
    ELSE LET spot == Head(draws)
         IN  GenLoopRowCheck(
                 IF \A i \in 1..Len(dirt_spots) : dirt_spots[i][1] # spot[1]
                 THEN Append(dirt_spots, spot) ELSE dirt_spots,
                 Tail(draws))

\* The body of the for loop of _generate_dirt_spots, over the drawn spots.
RECURSIVE GenLoop(_, _)
GenLoop(dirt_spots, draws) ==
    IF draws = <<>> THEN dirt_spots
    ELSE LET spot == Head(draws)
         IN  GenLoop(IF ~In(spot, dirt_spots) THEN Append(dirt_spots, spot)
                                               ELSE dirt_spots,
                     Tail(draws))

generate_dirt_spots(draws) == GenLoop(<<>>, draws)

\* range(num_dirt_spots)
range(n) == 1..n

\* casa = Casa(grid_size, num_dirt_spots)
CasaNew ==
    /\ pc = "casa"
    /\ IF range(num_dirt_spots) # {} /\ Spots(grid_size) = {}
       THEN \* randint raises ValueError in the first iteration
            /\ pc' = "error"
            /\ UNCHANGED <<heap, casa>>
       ELSE \E draws \in [range(num_dirt_spots) -> Spots(grid_size)] :
            /\ heap' = Append(heap, generate_dirt_spots(draws))
            /\ casa' = [grid_size |-> grid_size, dirt_positions |-> Len(heap) + 1]
            /\ pc' = "rumba"
    /\ UNCHANGED <<seed, grid_size, num_dirt_spots, max_steps, rumba, state, steps,
                   report, dirt0, moves, plots>>

get_dirt_positions == casa.dirt_positions

\* ------------------------------------------------------------------ Rumba
\* A constructor that cleans the cell the robot starts on.
RumbaNewAutoClean(dirt_positions, next) ==
    IF Spots(grid_size) = {}
    THEN /\ pc' = "error"
         /\ UNCHANGED <<heap, rumba, dirt0>>
    ELSE \E position \in Spots(grid_size) :
         LET shared == heap[dirt_positions] # <<>>
             heap1 == IF shared THEN heap ELSE Append(heap, <<>>)
             dref  == IF shared THEN dirt_positions ELSE Len(heap1)
             found == In(position, heap1[dref])
         IN  /\ heap' = Append([heap1 EXCEPT ![dref] = ListRemove(@, position)],
                               IF found THEN <<position>> ELSE <<>>)
             /\ rumba' = [grid_size |-> grid_size, dirt_positions |-> dref,
                          position |-> position, cleaned_spots |-> Len(heap1) + 1]
             /\ dirt0' = heap1[dref]
             /\ pc' = next

\* Rumba(grid_size, dirt_positions), then control goes to `next'.
RumbaNew(dirt_positions, next) ==
    IF Spots(grid_size) = {}
    THEN \* randint raises ValueError
         /\ pc' = "error"
         /\ UNCHANGED <<heap, rumba, dirt0>>
    ELSE \E position \in Spots(grid_size) :
         LET shared == heap[dirt_positions] # <<>>
             heap1 == IF shared THEN heap ELSE Append(heap, <<>>)
             dref  == IF shared THEN dirt_positions ELSE Len(heap1)
         IN  /\ heap' = Append(heap1, <<>>)
             /\ rumba' = [grid_size |-> grid_size, dirt_positions |-> dref,
                          position |-> position, cleaned_spots |-> Len(heap1) + 1]
             /\ dirt0' = heap1[dref]
             /\ pc' = next

\* A direction list with a mistyped vector.
directionsDiagonal == {<<-1, 0>>, <<1, 1>>, <<0, -1>>, <<0, 1>>}

directions == {<<-1, 0>>, <<1, 0>>, <<0, -1>>, <<0, 1>>}

\* A grid that wraps around instead of clamping.
ClampWrap(gs, p) == <<p[1] % gs[1], p[2] % gs[2]>>

\* A clamp that forgets the lower bound.
ClampUpperOnly(gs, p) == <<min(gs[1] - 1, p[1]), min(gs[2] - 1, p[2])>>

Clamp(gs, p) == <<max(0, min(gs[1] - 1, p[1])), max(0, min(gs[2] - 1, p[2]))>>

\* A move that removes the dirt but does not record it.
moveForgetAppend(move_dir) ==
    LET new_position == Clamp(rumba.grid_size,
                              <<rumba.position[1] + move_dir[1],
                                rumba.position[2] + move_dir[2]>>)
    IN  /\ rumba' = [rumba EXCEPT !.position = new_position]
        /\ heap' = IF In(new_position, heap[rumba.dirt_positions])
                   THEN [heap EXCEPT
                           ![rumba.dirt_positions] = ListRemove(@, new_position)]
                   ELSE heap
        /\ moves' = moves + 1

\* A move that records every position it reaches as cleaned.
moveAlwaysAppend(move_dir) ==
    LET new_position == Clamp(rumba.grid_size,
                              <<rumba.position[1] + move_dir[1],
                                rumba.position[2] + move_dir[2]>>)
    IN  /\ rumba' = [rumba EXCEPT !.position = new_position]
        /\ heap' = [heap EXCEPT
                      ![rumba.dirt_positions] = ListRemove(@, new_position),
                      ![rumba.cleaned_spots] = Append(@, new_position)]
        /\ moves' = moves + 1

\* A move that subtracts the direction instead of adding it.
moveNegated(move_dir) ==
    LET new_position == Clamp(rumba.grid_size,
                              <<rumba.position[1] - move_dir[1],
                                rumba.position[2] - move_dir[2]>>)
    IN  /\ rumba' = [rumba EXCEPT !.position = new_position]
        /\ heap' = IF In(new_position, heap[rumba.dirt_positions])
                   THEN [heap EXCEPT
                           ![rumba.dirt_positions] = ListRemove(@, new_position),
                           ![rumba.cleaned_spots] = Append(@, new_position)]
                   ELSE heap
        /\ moves' = moves + 1

\* A move that cleans the cell it leaves instead of the cell it reaches.
moveCleanBeforeMove(move_dir) ==
    LET new_position == Clamp(rumba.grid_size,
                              <<rumba.position[1] + move_dir[1],
                                rumba.position[2] + move_dir[2]>>)
    IN  /\ rumba' = [rumba EXCEPT !.position = new_position]
        /\ heap' = IF In(rumba.position, heap[rumba.dirt_positions])
                   THEN [heap EXCEPT
                           ![rumba.dirt_positions] = ListRemove(@, rumba.position),
                           ![rumba.cleaned_spots] = Append(@, rumba.position)]
                   ELSE heap
        /\ moves' = moves + 1

\* A move that records the dirt as cleaned but leaves it in the dirt list.
moveForgetRemove(move_dir) ==
    LET new_position == Clamp(rumba.grid_size,
                              <<rumba.position[1] + move_dir[1],
                                rumba.position[2] + move_dir[2]>>)
    IN  /\ rumba' = [rumba EXCEPT !.position = new_position]
        /\ heap' = IF In(new_position, heap[rumba.dirt_positions])
                   THEN [heap EXCEPT
                           ![rumba.cleaned_spots] = Append(@, new_position)]
                   ELSE heap
        /\ moves' = moves + 1

\* rumba.move() with random.choice(directions) = move_dir
move(move_dir) ==
    LET new_position == Clamp(rumba.grid_size,
                              <<rumba.position[1] + move_dir[1],
                                rumba.position[2] + move_dir[2]>>)
    IN  /\ rumba' = [rumba EXCEPT !.position = new_position]
        /\ heap' = IF In(new_position, heap[rumba.dirt_positions])
                   THEN [heap EXCEPT
                           ![rumba.dirt_positions] = ListRemove(@, new_position),
                           ![rumba.cleaned_spots] = Append(@, new_position)]
                   ELSE heap
        /\ moves' = moves + 1

is_clean == Len(heap[rumba.dirt_positions]) = 0

get_state == [position |-> rumba.position,
              dirt_positions |-> rumba.dirt_positions,
              cleaned_spots |-> rumba.cleaned_spots]

\* ------------------------------------------------------------ main program
Dims == (-1)..MaxDim

Init ==
    /\ grid_size \in Dims \X Dims
    /\ num_dirt_spots \in 0..MaxDirt
    /\ max_steps \in 1..MaxSteps
    /\ heap = <<>>
    /\ casa = NoCasa
    /\ rumba = NoRumba
    /\ state = NoState
    /\ steps = 0
    /\ report = "none"
    /\ pc = "casa"
    /\ dirt0 = <<>>
    /\ moves = 0
    /\ plots = 0
    /\ seed = NoSeed

\* rumba = Rumba(grid_size, casa.get_dirt_positions())
MainRumba ==
    /\ pc = "rumba"
    /\ RumbaNew(get_dirt_positions, "while")
    /\ UNCHANGED <<seed, grid_size, num_dirt_spots, max_steps, casa, state, steps,
                   report, moves, plots>>

\* A loop condition that does not look at the dirt.
LoopCondIgnoreClean == steps < max_steps

\* A loop condition that is off by one.
LoopCondOffByOne == ~is_clean /\ steps <= max_steps

\* the condition of the while loop
LoopCond == ~is_clean /\ steps < max_steps

\* while not rumba.is_clean() and steps < max_steps: rumba.move()
LoopMove ==
    /\ pc = "while"
    /\ LoopCond
    /\ \E move_dir \in directions : move(move_dir)
    /\ pc' = "plot"
    /\ UNCHANGED <<seed, grid_size, num_dirt_spots, max_steps, casa, state, steps,
                   report, dirt0, plots>>

\* A loop body that plots the previous snapshot again.
LoopPlotStale ==
    /\ pc = "plot"
    /\ plots' = plots + 1
    /\ pc' = "incr"
    /\ UNCHANGED <<seed, grid_size, num_dirt_spots, max_steps, heap, casa,
                   rumba, state, steps, report, dirt0, moves>>

\* state = rumba.get_state(); plot_grid(grid_size, state)
LoopPlot ==
    /\ pc = "plot"
    /\ state' = get_state
    /\ plots' = plots + 1
    /\ pc' = "incr"
    /\ UNCHANGED <<seed, grid_size, num_dirt_spots, max_steps, heap, casa, rumba,
                   steps, report, dirt0, moves>>

\* steps += 1
LoopIncr ==
    /\ pc = "incr"
    /\ steps' = steps + 1
    /\ pc' = "while"
    /\ UNCHANGED <<seed, grid_size, num_dirt_spots, max_steps, heap, casa, rumba,
                   state, report, dirt0, moves, plots>>

\* An outcome decided by the budget instead of the dirt.
OutcomeBySteps == IF steps < max_steps THEN "cleaned" ELSE "could not clean"

\* the message printed after the loop
Outcome == IF is_clean THEN "cleaned" ELSE "could not clean"

\* the loop condition is false; print the outcome
LoopExit ==
    /\ pc = "while"
    /\ ~LoopCond
    /\ report' = Outcome
    /\ pc' = "done"
    /\ UNCHANGED <<seed, grid_size, num_dirt_spots, max_steps, heap, casa, rumba,
                   state, steps, dirt0, moves, plots>>

Next == CasaNew \/ MainRumba \/ LoopMove \/ LoopPlot \/ LoopIncr \/ LoopExit

Spec == Init /\ [][Next]_vars

\* The program is sequential and every statement of it completes, so a
\* step that is enabled is eventually taken.
FairSpec == Spec /\ WF_vars(Next)

\* ------------------------------------------------- a free client of the API
\* The same two constructor calls, followed by any sequence of move() and
\* get_state() calls instead of the loop of the main program.  The client
\* has no step budget, so max_steps is pinned.
InitApi == Init /\ max_steps = 1

ApiRumba ==
    /\ pc = "rumba"
    /\ RumbaNew(get_dirt_positions, "api")
    /\ UNCHANGED <<seed, grid_size, num_dirt_spots, max_steps, casa, state, steps,
                   report, moves, plots>>

ApiMove ==
    /\ pc = "api"
    /\ moves < MaxCalls
    /\ \E move_dir \in directions : move(move_dir)
    /\ UNCHANGED <<seed, grid_size, num_dirt_spots, max_steps, casa, state, steps,
                   report, pc, dirt0, plots>>

ApiGetState ==
    /\ pc = "api"
    /\ state' = get_state
    /\ UNCHANGED <<seed, grid_size, num_dirt_spots, max_steps, heap, casa, rumba,
                   steps, report, pc, dirt0, moves, plots>>

NextApi == CasaNew \/ ApiRumba \/ ApiMove \/ ApiGetState

SpecApi == InitApi /\ [][NextApi]_vars

\* ------------------------------------- a client that updates the snapshot
\* The lists found in the dict returned by get_state(), by key.
StateKeys == {"dirt_positions", "cleaned_spots"}

StateList(key) == IF key = "dirt_positions" THEN state.dirt_positions
                                            ELSE state.cleaned_spots

\* state[key].clear(), the last thing the client does
CallerClear ==
    /\ pc = "api"
    /\ state # NoState
    /\ \E key \in StateKeys :
          heap' = [heap EXCEPT ![StateList(key)] = <<>>]
    /\ pc' = "caller_done"
    /\ UNCHANGED <<seed, grid_size, num_dirt_spots, max_steps, casa, rumba, state,
                   steps, report, dirt0, moves, plots>>

\* state[key].append(state['position']), the last thing the client does
CallerAppend ==
    /\ pc = "api"
    /\ state # NoState
    /\ \E key \in StateKeys :
          heap' = [heap EXCEPT ![StateList(key)] = Append(@, state.position)]
    /\ pc' = "caller_done"
    /\ UNCHANGED <<seed, grid_size, num_dirt_spots, max_steps, casa, rumba, state,
                   steps, report, dirt0, moves, plots>>

NextCaller == NextApi \/ CallerClear \/ CallerAppend

SpecCaller == InitApi /\ [][NextCaller]_vars

\* ------------------------------------------- the program, seeded randomness
\* The main program run with a random source whose outcomes are fixed in
\* advance: the spots the house draws, the position the robot starts at
\* and the directions random.choice returns, in order.
up == <<-1, 0>>
down == <<1, 0>>
left == <<0, -1>>
right == <<0, 1>>

SeedGrids == {<<n, n>> : n \in 1..MaxGrid} \cup ((1..MaxDim) \X (1..MaxDim))

InitSeeded ==
    /\ grid_size \in SeedGrids
    /\ num_dirt_spots = 1
    /\ max_steps = MaxScript
    /\ seed \in [spots : {<<<<0, 0>>>>}, start : Spots(grid_size),
                 dirs : [1..MaxScript -> directions]]
    /\ heap = <<>>
    /\ casa = NoCasa
    /\ rumba = NoRumba
    /\ state = NoState
    /\ steps = 0
    /\ report = "none"
    /\ pc = "casa"
    /\ dirt0 = <<>>
    /\ moves = 0
    /\ plots = 0

\* casa = Casa(grid_size, num_dirt_spots), randint returning the seeded spots
SeededCasa ==
    /\ CasaNew
    /\ heap'[casa'.dirt_positions] = generate_dirt_spots(seed.spots)

\* rumba = Rumba(grid_size, casa.get_dirt_positions()), randint returning
\* the seeded start
SeededRumba ==
    /\ MainRumba
    /\ rumba'.position = seed.start

\* rumba.move() in the loop, random.choice returning the next seeded direction
SeededLoopMove ==
    /\ pc = "while"
    /\ LoopCond
    /\ move(seed.dirs[moves + 1])
    /\ pc' = "plot"
    /\ UNCHANGED <<seed, grid_size, num_dirt_spots, max_steps, casa, state,
                   steps, report, dirt0, plots>>

NextSeeded == SeededCasa \/ SeededRumba \/ SeededLoopMove \/ LoopPlot
                 \/ LoopIncr \/ LoopExit

SpecSeeded == InitSeeded /\ [][NextSeeded]_vars

\* --------------------------------------- the program, seeded house only
\* The main program with only the draws of the house fixed in advance.
InitGen ==
    /\ grid_size \in (1..MaxDim) \X (1..MaxDim)
    /\ num_dirt_spots \in 0..MaxDirt
    /\ max_steps = 1
    /\ seed \in [spots : [range(num_dirt_spots) -> Spots(grid_size)],
                 start : {NoPos}, dirs : {<<>>}]
    /\ heap = <<>>
    /\ casa = NoCasa
    /\ rumba = NoRumba
    /\ state = NoState
    /\ steps = 0
    /\ report = "none"
    /\ pc = "casa"
    /\ dirt0 = <<>>
    /\ moves = 0
    /\ plots = 0

NextGen == SeededCasa \/ MainRumba \/ LoopMove \/ LoopPlot \/ LoopIncr
              \/ LoopExit

SpecGen == InitGen /\ [][NextGen]_vars

\* ------------------------------------------------------------ properties
Rows == grid_size[1]
Cols == grid_size[2]
ValidGrid == Rows >= 1 /\ Cols >= 1
InGrid(p) == 0 <= p[1] /\ p[1] < Rows /\ 0 <= p[2] /\ p[2] < Cols
AllInGrid(list) == \A i \in 1..Len(list) : InGrid(list[i])
NoDup(list) == \A i, j \in 1..Len(list) : list[i] = list[j] => i = j

CasaDirt == heap[casa.dirt_positions]
DirtRemaining == heap[rumba.dirt_positions]
Cleaned == heap[rumba.cleaned_spots]
MoveStep == moves' = moves + 1

\* C1: on a grid with rows, cols >= 1, every position the generator
\* produced, the robot's initial position and its position after any
\* sequence of moves lie inside the grid.
C1_PositionsInGrid ==
    ValidGrid =>
      /\ casa # NoCasa => AllInGrid(CasaDirt)
      /\ rumba # NoRumba =>
            InGrid(rumba.position) /\ AllInGrid(DirtRemaining) /\ AllInGrid(Cleaned)

C1_Witness ==
    /\ pc = "api" /\ moves >= 2 /\ Rows >= 2
    /\ Len(CasaDirt) >= 1
    /\ rumba.position = <<Rows - 1, 0>>

\* C2: a single move leaves the number of remaining dirt positions as it
\* was or makes it exactly one less.
C2_MoveCleansAtMostOne ==
    [][MoveStep => \/ Len(DirtRemaining') = Len(DirtRemaining)
                   \/ Len(DirtRemaining') = Len(DirtRemaining) - 1]_vars

C2_Witness ==
    /\ pc = "api" /\ moves >= 2
    /\ Len(Cleaned) = 1 /\ Len(DirtRemaining) = 1

\* C3: after any number of moves, the number of cleaned spots is the number
\* of dirt positions the robot was constructed with minus the number that
\* remain.
C3_CleanedCount ==
    rumba # NoRumba => Len(Cleaned) = Len(dirt0) - Len(DirtRemaining)

C3_Witness ==
    /\ pc = "api" /\ moves >= 2
    /\ Len(Cleaned) = 2 /\ DirtRemaining = <<>>

\* C4: a move made when the robot is clean leaves it clean and leaves the
\* cleaned list as it was.
C4_CompletionAbsorbing ==
    [][(MoveStep /\ is_clean) => (is_clean' /\ Cleaned' = Cleaned)]_vars

\* The robot has cleaned everything and has since moved off the last spot.
C4_Witness ==
    /\ pc = "api" /\ is_clean
    /\ Len(dirt0) >= 1 /\ Len(Cleaned) = Len(dirt0)
    /\ rumba.position # Cleaned[Len(Cleaned)]

\* C5: the loop never runs more than max_steps iterations, at its exit
\* steps is the number of moves made, and the program always reaches its
\* end.
C5_LoopTerminates ==
    /\ [](/\ 0 <= steps /\ steps <= max_steps /\ moves <= max_steps
          /\ pc = "done" => steps = moves)
    /\ <>(pc \in {"done", "error"})

\* The budget ran out with dirt left.
C5_Witness ==
    pc = "done" /\ steps = max_steps /\ ~is_clean

\* C6: the program reports success exactly when no dirt remains at the exit
\* of the loop, failure otherwise, and failure only with steps = max_steps.
C6_OutcomeMatches ==
    pc = "done" =>
      /\ report \in {"cleaned", "could not clean"}
      /\ report = "cleaned" <=> is_clean
      /\ report = "could not clean" => steps = max_steps

\* The last dirt was cleaned on the max_steps-th step.
C6_Witness ==
    /\ pc = "done" /\ report = "cleaned"
    /\ steps = max_steps /\ Len(dirt0) >= 1

\* C7: an update a caller makes to the lists of the dict returned by
\* get_state() changes neither the robot's remaining dirt, nor its cleaned
\* list, nor the result of is_clean().
C7_SnapshotIsolated ==
    [][(pc = "api" /\ pc' = "caller_done") =>
          /\ DirtRemaining' = DirtRemaining
          /\ Cleaned' = Cleaned
          /\ is_clean' = is_clean]_vars

\* C8: a move of the robot leaves the dirt_positions of the house as they
\* were.
C8_CasaDirtUnchanged ==
    [][MoveStep => CasaDirt' = CasaDirt]_vars

\* C9: on a grid with rows, cols >= 1 the list the generator returns has no
\* duplicate and at most min(requested count, rows * cols) positions.
C9_GeneratorResult ==
    (pc = "rumba" /\ ValidGrid) =>
      /\ NoDup(CasaDirt)
      /\ Len(CasaDirt) <= min(num_dirt_spots, Rows * Cols)

\* More spots were requested than the grid has cells.
C9_Witness ==
    /\ pc = "rumba" /\ ValidGrid
    /\ num_dirt_spots > Rows * Cols
    /\ Len(CasaDirt) = Rows * Cols

\* C10: with a non-positive grid dimension neither a Casa nor a Rumba is
\* ever constructed, whatever the dirt count.
C10_BadGridRejected ==
    ~ValidGrid => (casa = NoCasa /\ rumba = NoRumba)

\* The cell a move in direction d from the current position aims at.
Target(d) == <<rumba.position[1] + d[1], rumba.position[2] + d[2]>>
Abs(n) == IF n >= 0 THEN n ELSE 0 - n
Dist(p, q) == Abs(p[1] - q[1]) + Abs(p[2] - q[2])
LoopStarted == pc \in {"while", "plot", "incr", "done"}

\* C11: a move whose direction points off the grid leaves the position where
\* it is, at the boundary, and the loop still counts the step.
C11_BoundaryClamp ==
    /\ [][MoveStep =>
            LET d == seed.dirs[moves + 1]
                p == rumba.position
                t == Target(d)
            IN  /\ t[1] < 0 => (p[1] = 0 /\ rumba'.position = p)
                /\ t[1] > Rows - 1 => (p[1] = Rows - 1 /\ rumba'.position = p)
                /\ t[2] < 0 => (p[2] = 0 /\ rumba'.position = p)
                /\ t[2] > Cols - 1 => (p[2] = Cols - 1 /\ rumba'.position = p)]_vars
    /\ [](pc \in {"while", "done"} => steps = moves)

\* From (0,0) on a (5,5) grid the robot went up, stayed, and the step counted.
C11_Witness ==
    /\ grid_size = <<5, 5>> /\ seed.start = <<0, 0>> /\ seed.dirs[1] = up
    /\ pc = "while" /\ moves = 1 /\ steps = 1
    /\ rumba.position = <<0, 0>>

\* C12: with num_dirt_spots = 0 the robot is clean from its construction on,
\* the loop body never runs, no move is made, and the program reports
\* success with steps = 0.
C12_NoDirtNoSteps ==
    (num_dirt_spots = 0 /\ LoopStarted) =>
      /\ is_clean
      /\ pc \in {"while", "done"}
      /\ moves = 0 /\ steps = 0 /\ plots = 0
      /\ pc = "done" => report = "cleaned"

C12_Witness ==
    /\ num_dirt_spots = 0 /\ pc = "done"
    /\ report = "cleaned" /\ steps = 0 /\ moves = 0

\* C13: the construction of the robot leaves the cleaned list empty and the
\* remaining dirt equal to the list handed in, also when the robot starts on
\* a dirt cell, which then is still dirt.
C13_InitialState ==
    [][(pc = "rumba" /\ pc' = "while") =>
          /\ Cleaned' = <<>>
          /\ DirtRemaining' = CasaDirt
          /\ In(rumba'.position, CasaDirt) => ~is_clean']_vars

\* The robot has just been constructed on a dirt cell.
C13_Witness ==
    /\ pc = "while" /\ moves = 0
    /\ In(rumba.position, DirtRemaining) /\ Cleaned = <<>>

\* C14: on a (3,3) grid with dirt {(0,0)} and the robot starting at (2,2),
\* the directions up, up, left, left take it to (0,0) in exactly 4 steps; it
\* is not clean before the 4th step and after it is clean with
\* cleaned = [(0,0)].
Scenario ==
    /\ grid_size = <<3, 3>>
    /\ seed.spots = <<<<0, 0>>>>
    /\ seed.start = <<2, 2>>
    /\ SubSeq(seed.dirs, 1, 4) = <<up, up, left, left>>

C14_EndToEnd ==
    (Scenario /\ LoopStarted) =>
      /\ moves <= 4
      /\ moves < 4 => (~is_clean /\ Cleaned = <<>>)
      /\ moves = 4 => /\ rumba.position = <<0, 0>>
                      /\ is_clean
                      /\ Cleaned = <<<<0, 0>>>>
      /\ pc = "done" => (steps = 4 /\ report = "cleaned")

C14_Witness ==
    Scenario /\ pc = "done" /\ moves = 4 /\ rumba.position = <<0, 0>>

\* C15: a move cleans exactly when the position it commits is in the
\* remaining dirt: then that one position leaves the remaining dirt and is
\* appended to the cleaned list; otherwise both lists stay as they were.
C15_CleanOnArrival ==
    [][MoveStep =>
          IF In(rumba'.position, DirtRemaining)
          THEN /\ DirtRemaining' = ListRemove(DirtRemaining, rumba'.position)
               /\ Cleaned' = Append(Cleaned, rumba'.position)
          ELSE /\ DirtRemaining' = DirtRemaining
               /\ Cleaned' = Cleaned]_vars

\* On a 1x1 grid the robot stood on dirt and cleaned it by a step into a wall.
C15_Witness ==
    /\ pc = "api" /\ grid_size = <<1, 1>>
    /\ moves = 1 /\ Cleaned = <<<<0, 0>>>> /\ dirt0 = <<<<0, 0>>>>

\* C16: a move is made only from the loop test with the robot not clean and
\* steps < max_steps, and each iteration is move, then snapshot, then
\* increment: one snapshot per move, taken after it, and as many snapshots as
\* steps.
C16_LoopOrder ==
    /\ [][MoveStep => (pc = "while" /\ ~is_clean /\ steps < max_steps
                       /\ pc' = "plot")]_vars
    /\ [](/\ pc \in {"while", "done"} => (moves = steps /\ plots = steps)
          /\ pc = "plot" => (moves = steps + 1 /\ plots = steps)
          /\ pc = "incr" => (moves = steps + 1 /\ plots = steps + 1
                             /\ state = get_state))

C16_Witness ==
    pc = "done" /\ steps >= 2 /\ plots = steps /\ state # NoState

\* C17: for a robot constructed from a duplicate-free dirt list, the
\* remaining dirt and the cleaned list are disjoint, the cleaned list has no
\* duplicate, and together they hold exactly the initial dirt.
ToSet(list) == {list[i] : i \in 1..Len(list)}

C17_DirtPartition ==
    (rumba # NoRumba /\ NoDup(dirt0)) =>
      /\ ToSet(DirtRemaining) \cap ToSet(Cleaned) = {}
      /\ NoDup(Cleaned) /\ NoDup(DirtRemaining)
      /\ ToSet(DirtRemaining) \cup ToSet(Cleaned) = ToSet(dirt0)

\* Of two dirt spots the second has been cleaned and the first remains.
C17_Witness ==
    /\ pc = "api" /\ Len(dirt0) = 2
    /\ Cleaned = <<dirt0[2]>> /\ DirtRemaining = <<dirt0[1]>>

\* C18: a move changes the position by one cell on one axis or not at all,
\* and not at all exactly when its direction points off the grid; on a 1x1
\* grid the position never changes.
C18_UnitStep ==
    [][MoveStep =>
          LET d == seed.dirs[moves + 1]
              n == Dist(rumba.position, rumba'.position)
          IN  /\ n \in {0, 1}
              /\ n = 0 <=> ~InGrid(Target(d))
              /\ grid_size = <<1, 1>> => rumba'.position = rumba.position]_vars

C18_Witness ==
    /\ grid_size = <<1, 1>> /\ LoopStarted
    /\ moves = 1 /\ rumba.position = seed.start

\* C19: the generator makes exactly requested_count draws and returns the
\* distinct positions among them in the order of their first occurrence, so
\* for requested_count >= 1 it returns between 1 and requested_count
\* positions.
Firsts(draws) ==
    {i \in 1..Len(draws) : \A j \in 1..(i - 1) : draws[j] # draws[i]}

C19_DistinctDraws ==
    pc = "rumba" =>
      /\ Len(seed.spots) = num_dirt_spots
      /\ Len(CasaDirt) = Cardinality(Firsts(seed.spots))
      /\ \A i \in Firsts(seed.spots) :
            CasaDirt[Cardinality({j \in Firsts(seed.spots) : j <= i})]
               = seed.spots[i]
      /\ num_dirt_spots >= 1 =>
            (1 <= Len(CasaDirt) /\ Len(CasaDirt) <= num_dirt_spots)

\* Fewer spots than requested although the grid has room for all of them.
C19_Witness ==
    /\ pc = "rumba"
    /\ num_dirt_spots <= Rows * Cols
    /\ Len(CasaDirt) < num_dirt_spots

====
